---- MODULE Spec2Model ----
(***************************************************************************)
(* Model of quick_deploy.py: deploy_function() PUTs the function source to *)
(* an ordered list of candidate endpoints and returns at the first status  *)
(* below 400; on overall failure the __main__ block issues one health      *)
(* check GET and prints a "has tenant fallback logic" diagnostic.          *)
(*                                                                         *)
(* Text is modelled as a tuple of one-character strings so that lower()    *)
(* and the substring test `in` are computed, not assumed.                  *)
(***************************************************************************)
EXTENDS Integers, Sequences, FiniteSets, TLC

VARIABLES
    pc,                 \* position of the single thread of control
    service_key_set,    \* SUPABASE_SERVICE_ROLE_KEY is present in os.environ
    artifact_readable,  \* index.ts can be opened and read
    idx,                \* position of the for loop in endpoints
    success,            \* return value of deploy_function: "unset", "True", "False"
    http,               \* every HTTP call issued so far, in order, with its outcome
    out,                \* lines printed so far (by kind)
    resp,               \* what the health endpoint answered to the GET
    version,            \* version printed by the health check
    has_fallback,       \* local has_fallback: "unset", "True", "False"
    exit_code           \* -1 while running, 0 normal exit, 1 unhandled exception

vars == <<pc, service_key_set, artifact_readable, idx, success, http, out,
          resp, version, has_fallback, exit_code>>

----------------------------------------------------------------------------
(* Bounds and program constants *)

MaxFeatures == 2

SuccessLimit == 400

PutTimeout == 30

NoTimeout == 0

endpoints == <<"https://api.supabase.com/v1/projects/gnqqktmslswgjtvxfvdo/functions/twilio-voice-stream",
               "https://api.supabase.io/v1/projects/gnqqktmslswgjtvxfvdo/functions/twilio-voice-stream">>

health_url == "https://gnqqktmslswgjtvxfvdo.supabase.co/functions/v1/twilio-voice-stream?health=1"

----------------------------------------------------------------------------
(* Text: str(), lower(), substring *)

UpperChars == <<"A","B","C","D","E","F","G","H","I","J","K","L","M",
                "N","O","P","Q","R","S","T","U","V","W","X","Y","Z">>

LowerChars == <<"a","b","c","d","e","f","g","h","i","j","k","l","m",
                "n","o","p","q","r","s","t","u","v","w","x","y","z">>

DigitChars == <<"0","1","2","3","4","5","6","7","8","9">>

LowerCharIdentity(c) == c

LowerChar(c) ==
    IF \E i \in 1..Len(UpperChars) : UpperChars[i] = c
    THEN LowerChars[CHOOSE i \in 1..Len(UpperChars) : UpperChars[i] = c]
    ELSE c

Lower(s) == [i \in 1..Len(s) |-> LowerChar(s[i])]

Contains(needle, hay) ==
    \E i \in 0..(Len(hay) - Len(needle)) :
        SubSeq(hay, i + 1, i + Len(needle)) = needle

RECURSIVE Decimal(_)
Decimal(n) ==
    IF n < 10 THEN <<DigitChars[n + 1]>>
    ELSE Decimal(n \div 10) \o <<DigitChars[(n % 10) + 1]>>

Str(f) == IF f.type = "str" THEN f.text ELSE Decimal(f.val)

Tenant == <<"t","e","n","a","n","t">>

Fallback == <<"f","a","l","l","b","a","c","k">>

MentionsTenantFallback(f) ==
    Contains(Tenant, Lower(Str(f))) \/ Contains(Fallback, Lower(Str(f)))

RECURSIVE AnyOf(_)
AnyOf(fs) ==
    IF fs = <<>> THEN FALSE
    ELSE IF MentionsTenantFallback(Head(fs)) THEN TRUE
    ELSE AnyOf(Tail(fs))

----------------------------------------------------------------------------
(* What the network can answer *)

PutStatuses == {100, 200, 204, 301, 399, 400, 404, 500, 599}

PutOutcomes ==
    [kind : {"status"}, status : PutStatuses]
        \cup {[kind |-> "exception", status |-> 0]}

StrEntry(t) == [type |-> "str", text |-> t, val |-> 0]

IntEntry(n) == [type |-> "int", text |-> <<>>, val |-> n]

E_tenant_override ==
    StrEntry(<<"t","e","n","a","n","t","-","o","v","e","r","r","i","d","e">>)

E_color == StrEntry(<<"c","o","l","o","r">>)

E_TENANT == StrEntry(<<"T","E","N","A","N","T">>)

E_Auto_Fallback ==
    StrEntry(<<"A","u","t","o","-","F","a","l","l","b","a","c","k">>)

E_tenan == StrEntry(<<"t","e","n","a","n">>)

E_404 == IntEntry(404)

FeatureEntries ==
    {E_tenant_override, E_color, E_TENANT, E_Auto_Fallback, E_tenan, E_404}

FeatureLists ==
    UNION {[1..n -> FeatureEntries] : n \in 0..MaxFeatures}

\* the value under the key "features": absent, a list, a bare string,
\* null, or a number
FeatureValues ==
    [fkind : {"list"}, items : FeatureLists]
        \cup {[fkind |-> "missing", items |-> <<>>],
              [fkind |-> "str", items |-> <<Tenant>>],
              [fkind |-> "null", items |-> <<>>],
              [fkind |-> "number", items |-> <<>>]}

Versions == {"absent", "2.1.0"}

NoResp ==
    [net |-> "none", body |-> "none", version |-> "absent",
     features |-> [fkind |-> "missing", items |-> <<>>]]

HealthResponses ==
    [net : {"ok"}, body : {"dict"}, version : Versions, features : FeatureValues]
        \cup {[NoResp EXCEPT !.net = "error"],
              [NoResp EXCEPT !.net = "ok", !.body = "badjson"],
              [NoResp EXCEPT !.net = "ok", !.body = "nondict"]}

\* health.get('features', [])
features(r) ==
    IF r.features.fkind = "missing" THEN [fkind |-> "list", items |-> <<>>]
    ELSE r.features

Iterable(fv) == fv.fkind \in {"list", "str"}

\* the entries a for-in over the value yields
Iterate(fv) ==
    IF fv.fkind = "str"
    THEN [i \in 1..Len(fv.items[1]) |-> StrEntry(<<fv.items[1][i]>>)]
    ELSE fv.items

----------------------------------------------------------------------------
(* The program *)

Init ==
    /\ pc = "start"
    /\ service_key_set \in BOOLEAN
    /\ artifact_readable \in BOOLEAN
    /\ idx = 1
    /\ success = "unset"
    /\ http = <<>>
    /\ out = <<>>
    /\ resp = NoResp
    /\ version = "unset"
    /\ has_fallback = "unset"
    /\ exit_code = -1

Call(method, url, timeout, kind, status) ==
    [method |-> method, url |-> url, timeout |-> timeout,
     kind |-> kind, status |-> status]

LoadCredentialLenient ==
    /\ pc = "start"
    /\ pc' = "read"
    /\ UNCHANGED <<exit_code, service_key_set, artifact_readable, idx, success,
                   http, out, resp, version, has_fallback>>

\* service_key = os.environ['SUPABASE_SERVICE_ROLE_KEY']
LoadCredential ==
    /\ pc = "start"
    /\ IF service_key_set
       THEN pc' = "read" /\ UNCHANGED exit_code
       ELSE pc' = "crashed" /\ exit_code' = 1
    /\ UNCHANGED <<service_key_set, artifact_readable, idx, success, http, out,
                   resp, version, has_fallback>>

\* with open(...) as f: function_code = f.read(); payload, headers, endpoints
ReadArtifact ==
    /\ pc = "read"
    /\ IF artifact_readable
       THEN pc' = "loop" /\ idx' = 1 /\ UNCHANGED exit_code
       ELSE pc' = "crashed" /\ exit_code' = 1 /\ UNCHANGED idx
    /\ UNCHANGED <<service_key_set, artifact_readable, success, http, out,
                   resp, version, has_fallback>>

IsSuccessBelow300(status) == status < 300

IsSuccess(status) == status < SuccessLimit

\* a success that does not return
PutAttemptNoReturn(o) ==
    /\ http' = Append(http, Call("PUT", endpoints[idx], PutTimeout, o.kind, o.status))
    /\ idx' = idx + 1
    /\ out' = out \o (IF o.kind = "exception" THEN <<"Trying", "Error">>
                      ELSE IF IsSuccess(o.status)
                           THEN <<"Trying", "Status", "Response", "DeploySuccess">>
                           ELSE <<"Trying", "Status", "Response">>)
    /\ UNCHANGED <<pc, success, exit_code>>

\* no try/except around the PUT
PutAttemptRaise(o) ==
    /\ http' = Append(http, Call("PUT", endpoints[idx], PutTimeout, o.kind, o.status))
    /\ IF o.kind = "exception"
       THEN /\ out' = out \o <<"Trying">>
            /\ pc' = "crashed"
            /\ exit_code' = 1
            /\ UNCHANGED <<idx, success>>
       ELSE IF IsSuccess(o.status)
       THEN /\ out' = out \o <<"Trying", "Status", "Response", "DeploySuccess">>
            /\ success' = "True"
            /\ pc' = "main"
            /\ UNCHANGED <<idx, exit_code>>
       ELSE /\ out' = out \o <<"Trying", "Status", "Response">>
            /\ idx' = idx + 1
            /\ UNCHANGED <<pc, success, exit_code>>

\* an exception retries the same candidate once more
PutAttemptRetry(o) ==
    /\ http' = Append(http, Call("PUT", endpoints[idx], PutTimeout, o.kind, o.status))
    /\ IF o.kind = "exception"
       THEN /\ out' = out \o <<"Trying", "Error">>
            /\ idx' = IF Len(http) < idx THEN idx ELSE idx + 1
            /\ UNCHANGED <<pc, success>>
       ELSE IF IsSuccess(o.status)
       THEN /\ out' = out \o <<"Trying", "Status", "Response", "DeploySuccess">>
            /\ success' = "True"
            /\ pc' = "main"
            /\ UNCHANGED idx
       ELSE /\ out' = out \o <<"Trying", "Status", "Response">>
            /\ idx' = idx + 1
            /\ UNCHANGED <<pc, success>>
    /\ UNCHANGED exit_code

\* one iteration of `for endpoint in endpoints` with the outcome o of the PUT
PutAttempt(o) ==
    /\ http' = Append(http, Call("PUT", endpoints[idx], PutTimeout, o.kind, o.status))
    /\ IF o.kind = "exception"
       THEN /\ out' = out \o <<"Trying", "Error">>
            /\ idx' = idx + 1
            /\ UNCHANGED <<pc, success>>
       ELSE IF IsSuccess(o.status)
       THEN /\ out' = out \o <<"Trying", "Status", "Response", "DeploySuccess">>
            /\ success' = "True"
            /\ pc' = "main"
            /\ UNCHANGED idx
       ELSE /\ out' = out \o <<"Trying", "Status", "Response">>
            /\ idx' = idx + 1
            /\ UNCHANGED <<pc, success>>
    /\ UNCHANGED exit_code

TryEndpoint ==
    /\ pc = "loop"
    /\ idx <= Len(endpoints)
    /\ \E o \in PutOutcomes : PutAttempt(o)
    /\ UNCHANGED <<service_key_set, artifact_readable, resp, version, has_fallback>>

ReturnFalseAsTrue ==
    /\ pc = "loop"
    /\ idx > Len(endpoints)
    /\ success' = "True"
    /\ pc' = "main"
    /\ UNCHANGED <<service_key_set, artifact_readable, idx, http, out, resp,
                   version, has_fallback, exit_code>>

\* the loop is exhausted: return False
ReturnFalse ==
    /\ pc = "loop"
    /\ idx > Len(endpoints)
    /\ success' = "False"
    /\ pc' = "main"
    /\ UNCHANGED <<service_key_set, artifact_readable, idx, http, out, resp,
                   version, has_fallback, exit_code>>

\* `if success:` instead of `if not success:`
MainCheckInverted ==
    /\ pc = "main"
    /\ IF success = "True"
       THEN /\ out' = out \o <<"AllFailed", "Testing">>
            /\ pc' = "health"
            /\ UNCHANGED exit_code
       ELSE /\ pc' = "done"
            /\ exit_code' = 0
            /\ UNCHANGED out
    /\ UNCHANGED <<service_key_set, artifact_readable, idx, success, http,
                   resp, version, has_fallback>>

\* the health check runs whatever deploy_function returned
MainCheckAlways ==
    /\ pc = "main"
    /\ out' = out \o <<"AllFailed", "Testing">>
    /\ pc' = "health"
    /\ UNCHANGED <<service_key_set, artifact_readable, idx, success, http,
                   resp, version, has_fallback, exit_code>>

\* success = deploy_function(); if not success: ...
MainCheck ==
    /\ pc = "main"
    /\ IF success = "True"
       THEN /\ pc' = "done"
            /\ exit_code' = 0
            /\ UNCHANGED out
       ELSE /\ out' = out \o <<"AllFailed", "Testing">>
            /\ pc' = "health"
            /\ UNCHANGED exit_code
    /\ UNCHANGED <<service_key_set, artifact_readable, idx, success, http,
                   resp, version, has_fallback>>

\* only a failed request is caught; a parse or shape error propagates
HealthStepNarrowExcept(r) ==
    /\ http' = Append(http, Call("GET", health_url, NoTimeout,
                                  IF r.net = "error" THEN "exception" ELSE "response", 0))
    /\ resp' = r
    /\ IF r.net = "error"
       THEN /\ out' = out \o <<"HealthFailed">>
            /\ pc' = "done" /\ exit_code' = 0
            /\ UNCHANGED <<version, has_fallback>>
       ELSE IF r.body # "dict"
       THEN /\ pc' = "crashed" /\ exit_code' = 1
            /\ UNCHANGED <<out, version, has_fallback>>
       ELSE /\ version' = (IF r.version = "absent" THEN "unknown" ELSE r.version)
            /\ IF Iterable(features(r))
               THEN /\ has_fallback' = (IF AnyOf(Iterate(features(r))) THEN "True" ELSE "False")
                    /\ out' = out \o <<"CurrentVersion", "HasFallback">>
                    /\ pc' = "done" /\ exit_code' = 0
               ELSE /\ out' = out \o <<"CurrentVersion">>
                    /\ pc' = "crashed" /\ exit_code' = 1
                    /\ UNCHANGED has_fallback

\* the try block of the fallback, with the answer r of the health endpoint
HealthStep(r) ==
    /\ http' = Append(http, Call("GET", health_url, NoTimeout,
                                  IF r.net = "error" THEN "exception" ELSE "response", 0))
    /\ resp' = r
    /\ pc' = "done"
    /\ exit_code' = 0
    /\ IF r.net = "error"              \* requests.get raises
       THEN /\ out' = out \o <<"HealthFailed">>
            /\ UNCHANGED <<version, has_fallback>>
       ELSE IF r.body = "badjson"      \* resp.json() raises
       THEN /\ out' = out \o <<"HealthFailed">>
            /\ UNCHANGED <<version, has_fallback>>
       ELSE IF r.body # "dict"         \* health.get raises AttributeError
       THEN /\ out' = out \o <<"HealthFailed">>
            /\ UNCHANGED <<version, has_fallback>>
       ELSE /\ version' = (IF r.version = "absent" THEN "unknown" ELSE r.version)
            /\ IF Iterable(features(r))
               THEN /\ has_fallback' = (IF AnyOf(Iterate(features(r))) THEN "True" ELSE "False")
                    /\ out' = out \o <<"CurrentVersion", "HasFallback">>
               ELSE \* iterating None or a number raises TypeError
                    /\ out' = out \o <<"CurrentVersion", "HealthFailed">>
                    /\ UNCHANGED has_fallback

HealthCheck ==
    /\ pc = "health"
    /\ \E r \in HealthResponses : HealthStep(r)
    /\ UNCHANGED <<service_key_set, artifact_readable, idx, success>>

Next ==
    \/ LoadCredential
    \/ ReadArtifact
    \/ TryEndpoint
    \/ ReturnFalse
    \/ MainCheck
    \/ HealthCheck

Spec == Init /\ [][Next]_vars

\* the script is one sequential thread: whenever a step is possible it is taken
FairSpec == Spec /\ WF_vars(Next)

----------------------------------------------------------------------------
(* Reading the call history *)

IsPut(c) == c.method = "PUT"

IsGet(c) == c.method = "GET"

Puts == SelectSeq(http, IsPut)

Gets == SelectSeq(http, IsGet)

Answered(c) == c.kind = "status"

Below400(c) == IsPut(c) /\ Answered(c) /\ c.status < 400

AtLeast400(c) == IsPut(c) /\ Answered(c) /\ c.status >= 400

Raised(c) == IsPut(c) /\ c.kind = "exception"

Count(line) == Cardinality({i \in 1..Len(out) : out[i] = line})

Terminated == pc \in {"done", "crashed"}

----------------------------------------------------------------------------
(* C1: candidates are attempted in their listed order, and a PUT answered  *)
(* with a status below 400 is the last HTTP call of the run:               *)
(* deploy_function has returned True and nothing was sent to a later       *)
(* candidate.                                                              *)
C1_FirstSuccessStops ==
    /\ \A i \in 1..Len(Puts) :
          /\ i <= Len(endpoints)
          /\ Puts[i].url = endpoints[i]
    /\ \A i \in 1..Len(http) :
          Below400(http[i]) => /\ i = Len(http)
                               /\ success = "True"
                               /\ pc \in {"main", "done"}

C1_Witness ==
    /\ pc = "done"
    /\ Len(http) = 1
    /\ IsPut(http[1]) /\ http[1].url = endpoints[1]
    /\ Answered(http[1]) /\ http[1].status = 200
    /\ success = "True"

(* C2: with the credential present and the artifact readable,              *)
(* deploy_function returns, and it returns True exactly when some          *)
(* attempted candidate answered with a status below 400; after 500 then    *)
(* 200 it has returned True with exactly two PUTs.                         *)
C2_ReturnValue ==
    /\ pc \in {"main", "health", "done"} =>
          /\ service_key_set /\ artifact_readable
          /\ success \in {"True", "False"}
          /\ (success = "True") <=> (\E i \in 1..Len(Puts) : Below400(Puts[i]))
    /\ (/\ Len(Puts) >= 2
        /\ Answered(Puts[1]) /\ Puts[1].status = 500
        /\ Answered(Puts[2]) /\ Puts[2].status = 200)
          => (success = "True" /\ Len(Puts) = 2)

C2_Witness ==
    /\ pc = "done"
    /\ Len(Puts) = 2
    /\ Answered(Puts[1]) /\ Puts[1].status = 500
    /\ Answered(Puts[2]) /\ Puts[2].status = 200
    /\ success = "True"

(* C3: when both candidates answered with a status of 400 or above, the    *)
(* deploy phase returns False and the finished run has issued exactly one  *)
(* GET, as its third call, after both PUTs.                                *)
BothAtLeast400 ==
    /\ Len(Puts) = 2
    /\ AtLeast400(Puts[1])
    /\ AtLeast400(Puts[2])

C3_BothFailThenOneGet ==
    BothAtLeast400 =>
        /\ pc # "crashed"
        /\ pc # "loop" => success = "False"
        /\ Len(Gets) <= 1
        /\ pc = "done" => /\ Len(Gets) = 1
                          /\ Len(http) = 3
                          /\ IsPut(http[1]) /\ IsPut(http[2])
                          /\ IsGet(http[3]) /\ http[3].url = health_url

C3_Witness ==
    /\ BothAtLeast400
    /\ pc = "done"
    /\ Puts[1].status = 500 /\ Puts[2].status = 404
    /\ Len(Gets) = 1

(* C4: a run without the credential, or whose artifact cannot be read,     *)
(* never issues an HTTP call (no PUT, no GET), never returns from          *)
(* deploy_function, and can only end in the unhandled error.               *)
C4_FatalBeforeAnyCall ==
    (~service_key_set \/ ~artifact_readable) =>
        /\ http = <<>>
        /\ success = "unset"
        /\ pc \in {"start", "read", "crashed"}
        /\ exit_code \in {-1, 1}
        /\ (pc = "crashed") <=> (exit_code = 1)
        /\ (pc = "read" => service_key_set)

C4_Witness ==
    /\ pc = "crashed"
    /\ exit_code = 1
    /\ ~service_key_set
    /\ http = <<>>

(* C5: an exception during a PUT never ends the run in an unhandled        *)
(* error; each one is logged once, the next candidate is still attempted,  *)
(* and an exception on the first candidate followed by a status below 400  *)
(* on the second yields True.                                              *)
C5_PutExceptionCaught ==
    /\ Len(http) > 0 => (pc # "crashed" /\ exit_code # 1)
    /\ Count("Error") = Cardinality({i \in 1..Len(Puts) : Raised(Puts[i])})
    /\ \A i \in 1..Len(Puts) :
          (Raised(Puts[i]) /\ i < Len(endpoints)) =>
              \/ pc = "loop" /\ idx = i + 1 /\ Len(Puts) = i
              \/ Len(Puts) > i /\ Puts[i + 1].url = endpoints[i + 1]
    /\ (Len(Puts) = 2 /\ Raised(Puts[1]) /\ Below400(Puts[2])) => success = "True"

C5_Witness ==
    /\ Len(Puts) = 2
    /\ Raised(Puts[1])
    /\ Below400(Puts[2])
    /\ success = "True"
    /\ pc = "done"
    /\ exit_code = 0

(* C6: when the fallback GET fails (the request raises, the body is not    *)
(* JSON, or the JSON has an unexpected shape) the run ends normally with   *)
(* exit status 0, as a run whose health check succeeded does, and the last *)
(* line printed is the single "Health check failed" diagnostic.            *)
HealthFailure(r) ==
    \/ r.net = "error"
    \/ r.body \in {"badjson", "nondict"}
    \/ r.features.fkind \in {"null", "number"}

C6_HealthFailureSwallowed ==
    Len(Gets) > 0 =>
        /\ pc = "done"
        /\ exit_code = 0
        /\ success = "False"
        /\ HealthFailure(resp) =>
              /\ Count("HealthFailed") = 1
              /\ out[Len(out)] = "HealthFailed"
              /\ has_fallback = "unset"
        /\ ~HealthFailure(resp) => Count("HealthFailed") = 0

C6_Witness ==
    /\ Len(Gets) = 1
    /\ resp.net = "ok" /\ resp.body = "dict"
    /\ resp.features.fkind = "null"
    /\ pc = "done"
    /\ out[Len(out)] = "HealthFailed"

(* C7: the diagnostic is True exactly when some entry of the features      *)
(* sequence names tenant or fallback in any letter case; True for          *)
(* ["tenant-override"], False for ["color"], and False with no failure     *)
(* diagnostic when features is missing.                                    *)
NamesTenantOrFallback == {E_tenant_override, E_TENANT, E_Auto_Fallback}

C7_HasFallbackDiagnostic ==
    (Len(Gets) > 0 /\ ~HealthFailure(resp)) =>
        /\ has_fallback \in {"True", "False"}
        /\ Count("HasFallback") = 1
        /\ resp.features.fkind = "list" =>
              ((has_fallback = "True") <=>
                  (\E i \in 1..Len(resp.features.items) :
                       resp.features.items[i] \in NamesTenantOrFallback))
        /\ resp.features.fkind = "str" => has_fallback = "False"
        /\ resp.features = [fkind |-> "list", items |-> <<E_tenant_override>>]
              => has_fallback = "True"
        /\ resp.features = [fkind |-> "list", items |-> <<E_color>>]
              => has_fallback = "False"
        /\ resp.features.fkind = "missing" =>
              (has_fallback = "False" /\ Count("HealthFailed") = 0)

C7_Witness ==
    /\ pc = "done"
    /\ resp.features = [fkind |-> "list", items |-> <<E_color, E_TENANT>>]
    /\ has_fallback = "True"

(* C8: a PUT answered with a status from 100 to 399 ends the deploy phase  *)
(* with True; a PUT answered with 400 or more is a failed candidate: the   *)
(* loop moves on to the next candidate, or returns False after the last.   *)
C8_StrictlyBelow400 ==
    \A i \in 1..Len(Puts) :
        Answered(Puts[i]) =>
            /\ Puts[i].status \in 100..399 =>
                  (success = "True" /\ Len(Puts) = i /\ pc # "loop")
            /\ Puts[i].status >= 400 =>
                  \/ pc = "loop" /\ idx = i + 1 /\ Len(Puts) = i
                  \/ Len(Puts) > i /\ Puts[i + 1].url = endpoints[i + 1]
                  \/ i = Len(endpoints) /\ success = "False"

C8_Witness ==
    /\ Len(Puts) = 2
    /\ Answered(Puts[1]) /\ Puts[1].status = 400
    /\ Answered(Puts[2]) /\ Puts[2].status = 399
    /\ success = "True"
    /\ pc = "done"

(* C9: every run ends, and at every moment each candidate has received at  *)
(* most one PUT (so at most two PUTs in all) and at most one GET has been  *)
(* issued.                                                                 *)
CallBounds ==
    /\ \A e \in 1..Len(endpoints) :
          Cardinality({i \in 1..Len(http) :
                          IsPut(http[i]) /\ http[i].url = endpoints[e]}) <= 1
    /\ Len(Puts) <= 2
    /\ Len(Gets) <= 1
    /\ Len(http) <= 3

C10_GetOnlyAfterFailure ==
    /\ \A i \in 1..Len(http) :
          IsGet(http[i]) =>
              /\ success = "False"
              /\ Len(Puts) = Len(endpoints)
              /\ \A j \in 1..Len(http) : IsPut(http[j]) => j < i
    /\ (\E i \in 1..Len(http) : Below400(http[i])) => Len(Gets) = 0
    /\ success = "True" => (Len(Gets) = 0 /\ pc # "health")

C10_Witness ==
    /\ Len(http) = 3
    /\ Raised(http[1]) /\ Raised(http[2])
    /\ IsGet(http[3]) /\ http[3].kind = "response"
    /\ success = "False"

====
